---- MODULE Spec2Model ----
(***************************************************************************)
(* Model of scripts/playlist_manager.py: one invocation of main() scans    *)
(* ./music, loads data/history.json, filters out recently played tracks,   *)
(* draws one track at random with bitrate weights, rewrites the history    *)
(* file and prints the selected track.                                     *)
(***************************************************************************)
EXTENDS Integers, Sequences, FiniteSets, TLC

VARIABLES
  root_exists,   \* whether ./music exists
  tree,          \* the entries music_dir.rglob('*') yields, in enumeration order
  HAS_MUTAGEN,   \* whether the mutagen import succeeded
  store,         \* content of data/history.json
  run,           \* run[p]: locals, position, exit status and stdout of invocation p
  played,        \* tracks printed by the invocations that ended with status 0, in order
  runs           \* number of invocations started after the first one

vars == <<root_exists, tree, HAS_MUTAGEN, store, run, played, runs>>

----------------------------------------------------------------------------
(* Program constants *)

HISTORY_LIMIT == 10
FILE_KEEP == 20
LOSSLESS_BITRATE == 1411000
WEIGHT_STEP == 128000
EXIT_OK == 0
EXIT_NO_ROOT == 1
EXIT_NO_TRACKS == 1
EXIT_UNCAUGHT == 1

extensions == {".mp3", ".ogg", ".wav", ".flac", ".m4a"}

----------------------------------------------------------------------------
(* Bounds of the model *)

MaxFiles == 4      \* most entries under ./music in a single-invocation behaviour
FewRuns == 4       \* most re-invocations over a small catalog, every draw explored
MaxRuns == 11      \* most re-invocations in a behaviour of successive runs
LongN == 20        \* size of the large catalog used for successive runs

Procs == {1, 2}
Min(a, b) == IF a < b THEN a ELSE b
Max(a, b) == IF a > b THEN a ELSE b

----------------------------------------------------------------------------
(* The file system under ./music: what each entry is *)

Entry(path, kind, suffix, parses, bitrate) ==
  [path |-> path, kind |-> kind, suffix |-> suffix, parses |-> parses, bitrate |-> bitrate]

\* Entries a small music directory is drawn from, in enumeration order.
SmallEntries ==
  << Entry("a.mp3",     "file", ".mp3",  TRUE,  128000),
     Entry("b.flac",    "file", ".flac", TRUE,  0),
     Entry("c.mp3",     "file", ".mp3",  TRUE,  128000),
     Entry("d.OGG",     "file", ".OGG",  TRUE,  320000),
     Entry("e.wav",     "file", ".wav",  TRUE,  0),
     Entry("bad.flac",  "file", ".flac", FALSE, 0),
     Entry("live.mp3",  "dir",  ".mp3",  FALSE, 0),
     Entry("notes.txt", "file", ".txt",  FALSE, 0) >>

LongNames ==
  << "t01.mp3", "t02.mp3", "t03.mp3", "t04.mp3", "t05.mp3", "t06.mp3", "t07.mp3",
     "t08.mp3", "t09.mp3", "t10.mp3", "t11.mp3", "t12.mp3", "t13.mp3", "t14.mp3",
     "t15.mp3", "t16.mp3", "t17.mp3", "t18.mp3", "t19.mp3", "t20.mp3", "t21.mp3" >>

LongEntries == [i \in 1..Len(LongNames) |-> Entry(LongNames[i], "file", ".mp3", TRUE, 128000)]

Range(s) == {s[i] : i \in 1..Len(s)}
AllEntries == Range(SmallEntries) \cup Range(LongEntries)
Meta(path) == CHOOSE e \in AllEntries : e.path = path
Paths(entries) == [i \in 1..Len(entries) |-> entries[i].path]

\* str.lower() on the suffixes that occur
Lower(s) ==
  CASE s = ".OGG" -> ".ogg"
    [] s = ".MP3" -> ".mp3"
    [] OTHER -> s

----------------------------------------------------------------------------
(* The history store and load_history / save_history *)

NoTrack == ""
GONE == "gone.mp3"   \* path of a track that is no longer under ./music

\* kind: "missing" no file; "unreadable" open() raises; "garbage" json.load raises;
\* "empty" a file of no bytes, as open(HISTORY_FILE, 'w') leaves it (json.load raises);
\* "list" a JSON array (items); "str" a JSON string (has: the track paths that occur
\* in its text); "other" any other JSON value (object, number, null, true, false).
StoreValue(kind, items, has) == [kind |-> kind, items |-> items, has |-> has]
ListValue(items) == StoreValue("list", items, {})
EmptyList == ListValue(<<>>)

load_history(file) ==
  IF file.kind = "missing" THEN EmptyList
  ELSE IF file.kind \in {"unreadable", "garbage", "empty"} THEN EmptyList
  ELSE file

\* Length of a track path as main() builds it: str(p) for p under Path('./music').resolve()
MusicDir == "/music"
PathLen(t) == Len(MusicDir) + 1 + Len(t)

\* Number of characters json.dump writes for a list of paths: "[", the quoted items
\* joined by ", ", and "]"
RECURSIVE QuotedLen(_)
QuotedLen(items) ==
  IF items = <<>> THEN 0 ELSE PathLen(items[1]) + 2 + QuotedLen(Tail(items))

JsonLen(items) ==
  2 + QuotedLen(items) + (IF Len(items) > 1 THEN 2 * (Len(items) - 1) ELSE 0)

\* save_history is open(HISTORY_FILE, 'w'), which truncates the file, then json.dump and
\* the close that flushes the text, written from offset 0 of this invocation's own file
\* object. Written over a file that another invocation has filled with a longer text
\* since the truncation, the text is followed by the rest of that text: not JSON.
Truncated == StoreValue("empty", <<>>, {})

Written(file, history) ==
  IF file.kind = "empty" THEN history
  ELSE IF file.kind = "list" /\ JsonLen(file.items) <= JsonLen(history.items) THEN history
  ELSE StoreValue("garbage", <<>>, {})

save_history(file, history) == Written(file, history)

\* Python s[i:] on a sequence
SliceFrom(s, i) ==
  LET n == Len(s)
      start == IF i < 0 THEN Max(n + i, 0) ELSE Min(i, n)
  IN  SubSeq(s, start + 1, n)

----------------------------------------------------------------------------
(* get_bitrate *)

Returned(v) == [raised |-> FALSE, value |-> v]
Raised == [raised |-> TRUE, value |-> 0]

\* The body of the try block: MP3(), OggVorbis() and FLAC() raise on an entry that
\* does not parse as that format; an extension matching no branch falls through.
get_bitrate_try(filepath) ==
  LET ext == Lower(Meta(filepath).suffix) IN
  IF ext = ".mp3" THEN
    IF Meta(filepath).parses THEN Returned(Meta(filepath).bitrate) ELSE Raised
  ELSE IF ext = ".ogg" THEN
    IF Meta(filepath).parses THEN Returned(Meta(filepath).bitrate) ELSE Raised
  ELSE IF ext = ".flac" THEN
    IF Meta(filepath).parses THEN Returned(LOSSLESS_BITRATE) ELSE Raised
  ELSE Returned(0)

\* get_bitrate without the except clause
get_bitrate_Uncaught(filepath, has_mutagen) ==
  IF ~has_mutagen THEN Returned(0) ELSE get_bitrate_try(filepath)

get_bitrate(filepath, has_mutagen) ==
  IF ~has_mutagen THEN Returned(0)
  ELSE IF get_bitrate_try(filepath).raised THEN Returned(0)
  ELSE get_bitrate_try(filepath)

\* the weight without its base of 1
Weight_NoBase(br) == br \div WEIGHT_STEP

\* the weight with one step per 64 kbps, as the comment above the formula words it
Weight_PerSixtyFour(br) == 1 + (br \div 64000)

Weight(br) == 1 + (br \div WEIGHT_STEP)

----------------------------------------------------------------------------
(* The steps of main() *)

NotExited == -1
NoDraw == -1

InitRun ==
  [pc |-> "root", all_tracks |-> <<>>, history |-> EmptyList, loaded |-> EmptyList,
   actual_limit |-> 0, available_tracks |-> <<>>, bitrates |-> <<>>,
   scored_tracks |-> <<>>, total_weight |-> 0, r |-> NoDraw, selected |-> NoTrack,
   status |-> NotExited, stdout |-> <<>>, error |-> "none",
   found |-> EmptyList, log |-> <<>>, write_no |-> 0]

\* sys.exit(code): the locals of invocation p once it has exited
Exit(p, code) == [run[p] EXCEPT !.pc = "exit", !.status = code]
Crash(p, exc) ==
  run' = [run EXCEPT ![p].pc = "crash", ![p].status = EXIT_UNCAUGHT, ![p].error = exc]

\* main() without the exit on a missing root
CheckRoot_NoExit(p) ==
  /\ run[p].pc = "root"
  /\ run' = [run EXCEPT ![p].pc = "scan", ![p].found = store]
  /\ UNCHANGED <<root_exists, tree, HAS_MUTAGEN, store, played, runs>>

\* music_dir.exists(); found records the store as this invocation finds it
\* and log the steps it has taken
CheckRoot(p) ==
  /\ run[p].pc = "root"
  /\ IF ~root_exists
     THEN run' = [run EXCEPT ![p] = [Exit(p, EXIT_NO_ROOT) EXCEPT !.found = store]]
     ELSE run' = [run EXCEPT ![p].pc = "scan", ![p].found = store]
  /\ UNCHANGED <<root_exists, tree, HAS_MUTAGEN, store, played, runs>>

\* the rglob comprehension: every entry whose lowered suffix is allowed
Catalog(entries) == SelectSeq(entries, LAMBDA t : Lower(Meta(t).suffix) \in extensions)

\* a scan that leaves an empty history file behind when it finds no track
Scan_Creating(p) ==
  /\ run[p].pc = "scan"
  /\ IF Catalog(tree) = <<>>
     THEN /\ run' = [run EXCEPT ![p] = [Exit(p, EXIT_NO_TRACKS) EXCEPT
                                          !.log = Append(run[p].log, "scan")]]
          /\ store' = save_history(Truncated, EmptyList)
     ELSE /\ run' = [run EXCEPT ![p].pc = "load", ![p].all_tracks = Catalog(tree),
                                ![p].log = Append(run[p].log, "scan")]
          /\ UNCHANGED store
  /\ UNCHANGED <<root_exists, tree, HAS_MUTAGEN, played, runs>>

Scan(p) ==
  /\ run[p].pc = "scan"
  /\ IF Catalog(tree) = <<>>
     THEN run' = [run EXCEPT ![p] = [Exit(p, EXIT_NO_TRACKS) EXCEPT
                                       !.log = Append(run[p].log, "scan")]]
     ELSE run' = [run EXCEPT ![p].pc = "load", ![p].all_tracks = Catalog(tree),
                             ![p].log = Append(run[p].log, "scan")]
  /\ UNCHANGED <<root_exists, tree, HAS_MUTAGEN, store, played, runs>>

LoadHistory(p) ==
  /\ run[p].pc = "load"
  /\ run' = [run EXCEPT ![p].pc = "filter", ![p].history = load_history(store),
                        ![p].loaded = load_history(store),
                        ![p].log = Append(run[p].log, "load")]
  /\ UNCHANGED <<root_exists, tree, HAS_MUTAGEN, store, played, runs>>

\* the limit without the halving of the catalog size
ActualLimit_NoHalving(all_tracks) == Min(Len(all_tracks), HISTORY_LIMIT)

\* the limit computed from a quarter of the catalog
ActualLimit_Quarter(all_tracks) == Min(Len(all_tracks) \div 4, HISTORY_LIMIT)

ActualLimit(all_tracks) == Min(Len(all_tracks) \div 2, HISTORY_LIMIT)

\* history[-actual_limit:] of a list
\* the first entries of the history instead of the last
Window_Head(history, actual_limit) ==
  SubSeq(history.items, 1, Min(actual_limit, Len(history.items)))

Window(history, actual_limit) == SliceFrom(history.items, 0 - actual_limit)

\* t in history[-actual_limit:]. On a str this is a substring test: with
\* actual_limit = 0 the slice is the whole text; otherwise it holds at most
\* HISTORY_LIMIT characters, fewer than any resolved path "<cwd>/music/<name>.<ext>".
InWindow(t, history, actual_limit) ==
  IF history.kind = "list" THEN t \in Range(Window(history, actual_limit))
  ELSE actual_limit = 0 /\ t \in history.has

Subscriptable(history) == history.kind \in {"list", "str"}

Available(all_tracks, history, actual_limit) ==
  SelectSeq(all_tracks, LAMBDA t : ~InWindow(t, history, actual_limit))

Filter(p) ==
  /\ run[p].pc = "filter"
  /\ IF ~Subscriptable(run[p].history) THEN Crash(p, "TypeError")
     ELSE run' = [run EXCEPT
            ![p].pc = "fallback",
            ![p].actual_limit = ActualLimit(run[p].all_tracks),
            ![p].available_tracks =
               Available(run[p].all_tracks, run[p].history, ActualLimit(run[p].all_tracks))]
  /\ UNCHANGED <<root_exists, tree, HAS_MUTAGEN, store, played, runs>>

\* main() without the fallback to all_tracks
Fallback_Skipped(p) ==
  /\ run[p].pc = "fallback"
  /\ run' = [run EXCEPT ![p].pc = "score"]
  /\ UNCHANGED <<root_exists, tree, HAS_MUTAGEN, store, played, runs>>

Fallback(p) ==
  /\ run[p].pc = "fallback"
  /\ run' = [run EXCEPT
       ![p].pc = "score",
       ![p].available_tracks =
          IF run[p].available_tracks = <<>> THEN run[p].all_tracks
          ELSE run[p].available_tracks]
  /\ UNCHANGED <<root_exists, tree, HAS_MUTAGEN, store, played, runs>>

Bitrates(tracks, has_mutagen) == [i \in 1..Len(tracks) |-> get_bitrate(tracks[i], has_mutagen)]

Scored(tracks, brs) == [i \in 1..Len(tracks) |-> <<tracks[i], Weight(brs[i].value)>>]

RECURSIVE SumWeights(_)
SumWeights(scored) ==
  IF scored = <<>> THEN 0 ELSE scored[1][2] + SumWeights(Tail(scored))

Score(p) ==
  /\ run[p].pc = "score"
  /\ LET brs == Bitrates(run[p].available_tracks, HAS_MUTAGEN) IN
     IF \E i \in 1..Len(brs) : brs[i].raised THEN Crash(p, "Exception")
     ELSE run' = [run EXCEPT
            ![p].pc = "draw",
            ![p].bitrates = brs,
            ![p].scored_tracks = Scored(run[p].available_tracks, brs),
            ![p].total_weight = SumWeights(Scored(run[p].available_tracks, brs))]
  /\ UNCHANGED <<root_exists, tree, HAS_MUTAGEN, store, played, runs>>

\* the loop with > in place of >=
RECURSIVE Walk_Strict(_, _, _, _)
Walk_Strict(scored, upto, r, selected) ==
  IF scored = <<>> THEN selected
  ELSE IF 2 * (upto + scored[1][2]) > r THEN scored[1][1]
  ELSE Walk_Strict(Tail(scored), upto + scored[1][2], r, selected)

\* the loop without upto += w
RECURSIVE Walk_NoAccumulate(_, _, _, _)
Walk_NoAccumulate(scored, upto, r, selected) ==
  IF scored = <<>> THEN selected
  ELSE IF 2 * (upto + scored[1][2]) >= r THEN scored[1][1]
  ELSE Walk_NoAccumulate(Tail(scored), upto, r, selected)

\* The loop over scored_tracks. r and the comparison are in halves: r = 2 * (the float
\* drawn), so that the draws cover the integers of [0, total] and the points between.
RECURSIVE Walk(_, _, _, _)
Walk(scored, upto, r, selected) ==
  IF scored = <<>> THEN selected
  ELSE IF 2 * (upto + scored[1][2]) >= r THEN scored[1][1]
  ELSE Walk(Tail(scored), upto + scored[1][2], r, selected)

\* random.uniform(0, total_weight), in halves
Draws(total_weight, coarse) ==
  IF coarse THEN {0, 2 * total_weight} ELSE 0..(2 * total_weight)

\* main() printing the selected track as soon as it is drawn
Select_Printing(p, coarse) ==
  /\ run[p].pc = "draw"
  /\ run[p].available_tracks # <<>>
  /\ \E r \in Draws(run[p].total_weight, coarse) :
       run' = [run EXCEPT
         ![p].pc = "update",
         ![p].r = r,
         ![p].selected = Walk(run[p].scored_tracks, 0, r, run[p].available_tracks[1]),
         ![p].stdout =
            Append(run[p].stdout, Walk(run[p].scored_tracks, 0, r, run[p].available_tracks[1])),
         ![p].log = run[p].log \o <<"select", "print">>]
  /\ UNCHANGED <<root_exists, tree, HAS_MUTAGEN, store, played, runs>>

\* selected = available_tracks[0] raises IndexError on an empty list
Select(p, coarse) ==
  /\ run[p].pc = "draw"
  /\ \E r \in Draws(run[p].total_weight, coarse) :
       IF run[p].available_tracks = <<>>
       THEN run' = [run EXCEPT ![p].pc = "crash", ![p].status = EXIT_UNCAUGHT,
                               ![p].error = "IndexError", ![p].r = r]
       ELSE run' = [run EXCEPT
              ![p].pc = "update",
              ![p].r = r,
              ![p].selected = Walk(run[p].scored_tracks, 0, r, run[p].available_tracks[1]),
              ![p].log = Append(run[p].log, "select")]
  /\ UNCHANGED <<root_exists, tree, HAS_MUTAGEN, store, played, runs>>

Appended(history, selected) == ListValue(Append(history.items, selected))
Kept(history) == ListValue(SliceFrom(history.items, 0 - FILE_KEEP))

\* history.append(selected), then save_history up to the open() that truncates the file
UpdateHistory(p) ==
  /\ run[p].pc = "update"
  /\ IF run[p].history.kind # "list"
     THEN Crash(p, "AttributeError") /\ UNCHANGED store
     ELSE /\ run' = [run EXCEPT ![p].pc = "write",
                                ![p].history = Appended(run[p].history, run[p].selected),
                                ![p].log = Append(run[p].log, "open")]
          /\ store' = Truncated
  /\ UNCHANGED <<root_exists, tree, HAS_MUTAGEN, played, runs>>

\* Number of invocations that have written the store
Writers == Cardinality({q \in Procs : run[q].write_no > 0})

\* json.dump(history[-20:], f) and the close of the file
WriteHistory(p) ==
  /\ run[p].pc = "write"
  /\ run' = [run EXCEPT ![p].pc = "print",
                        ![p].write_no = Writers + 1,
                        ![p].log = Append(run[p].log, "write")]
  /\ store' = save_history(store, Kept(run[p].history))
  /\ UNCHANGED <<root_exists, tree, HAS_MUTAGEN, played, runs>>

\* main() printing the selected track before and after the update
PrintSelected_Twice(p) ==
  /\ run[p].pc = "print"
  /\ run' = [run EXCEPT ![p].pc = "done", ![p].status = EXIT_OK,
                        ![p].stdout = <<run[p].selected, run[p].selected>>,
                        ![p].log = Append(run[p].log, "print")]
  /\ played' = Append(played, run[p].selected)
  /\ UNCHANGED <<root_exists, tree, HAS_MUTAGEN, store, runs>>

PrintSelected(p) ==
  /\ run[p].pc = "print"
  /\ run' = [run EXCEPT ![p].pc = "done", ![p].status = EXIT_OK,
                        ![p].stdout = Append(run[p].stdout, run[p].selected),
                        ![p].log = Append(run[p].log, "print")]
  /\ played' = Append(played, run[p].selected)
  /\ UNCHANGED <<root_exists, tree, HAS_MUTAGEN, store, runs>>

Ended(p) == run[p].pc \in {"done", "exit", "crash"}

\* The script is invoked again once the previous invocation has ended.
Rerun(p) ==
  /\ Ended(p)
  /\ runs < MaxRuns
  /\ runs' = runs + 1
  /\ run' = [run EXCEPT ![p] = InitRun]
  /\ UNCHANGED <<root_exists, tree, HAS_MUTAGEN, store, played>>

----------------------------------------------------------------------------
(* Initial states *)

SubSeqOf(entries, keep) == SelectSeq(entries, LAMBDA e : e \in keep)

SmallTrees ==
  { Paths(SubSeqOf(SmallEntries, keep)) :
      keep \in {k \in SUBSET Range(SmallEntries) : Cardinality(k) <= MaxFiles} }

LongTree == Paths(SubSeqOf(LongEntries, {LongEntries[i] : i \in 1..LongN}))

RECURSIVE Alternating(_)
Alternating(n) ==
  IF n = 0 THEN <<>>
  ELSE Append(Alternating(n - 1), IF n % 2 = 0 THEN "b.flac" ELSE GONE)

Stores ==
  { StoreValue("missing", <<>>, {}),
    StoreValue("unreadable", <<>>, {}),
    StoreValue("garbage", <<>>, {}),
    StoreValue("other", <<>>, {}),
    StoreValue("str", <<>>, {"a.mp3"}),
    ListValue(<<"a.mp3", "b.flac", "c.mp3">>),
    ListValue(<<GONE, "a.mp3">>),
    ListValue(Alternating(FILE_KEEP)),
    ListValue(Alternating(FILE_KEEP + 5)) }

InitCommon ==
  /\ run = [p \in Procs |-> InitRun]
  /\ played = <<>>
  /\ runs = 0

Init ==
  /\ root_exists \in BOOLEAN
  /\ tree \in (IF root_exists THEN SmallTrees ELSE {<<>>})
  /\ HAS_MUTAGEN \in BOOLEAN
  /\ store \in Stores
  /\ InitCommon

Main(p, coarse) ==
  \/ CheckRoot(p)
  \/ Scan(p)
  \/ LoadHistory(p)
  \/ Filter(p)
  \/ Fallback(p)
  \/ Score(p)
  \/ Select(p, coarse)
  \/ UpdateHistory(p)
  \/ WriteHistory(p)
  \/ PrintSelected(p)

\* One invocation of main(), every draw explored
Next == Main(1, FALSE)

Spec == Init /\ [][Next]_vars

\* Successive invocations over the same store and a catalog of LongN tracks; of each
\* draw only the two ends of [0, total] are explored.
RunStores ==
  { StoreValue("missing", <<>>, {}),
    ListValue(<<"t03.mp3", GONE, "t01.mp3">>) }

InitRuns ==
  /\ root_exists = TRUE
  /\ tree = LongTree
  /\ HAS_MUTAGEN = TRUE
  /\ store \in RunStores
  /\ InitCommon

NextRuns == Main(1, TRUE) \/ Rerun(1)

SpecRuns == InitRuns /\ [][NextRuns]_vars

\* Successive invocations over the same store and a small catalog, every draw explored
FewTrees == { SubSeq(<<"a.mp3", "b.flac", "c.mp3", "d.OGG", "e.wav">>, 1, n) : n \in 2..5 }

FewStores ==
  { StoreValue("missing", <<>>, {}),
    ListValue(<<"a.mp3", "b.flac", "c.mp3">>),
    ListValue(<<GONE, "a.mp3">>),
    ListValue(Alternating(FILE_KEEP)) }

InitFew ==
  /\ root_exists = TRUE
  /\ tree \in FewTrees
  /\ HAS_MUTAGEN \in BOOLEAN
  /\ store \in FewStores
  /\ InitCommon

RerunFew(p) == runs < FewRuns /\ Rerun(p)

NextFew == Main(1, FALSE) \/ RerunFew(1)

SpecFew == InitFew /\ [][NextFew]_vars

\* Two invocations of main() running at the same time over one store
ConcTrees == { <<"a.mp3", "b.flac">>, <<"a.mp3", "b.flac", "c.mp3">> }

ConcStores ==
  { StoreValue("missing", <<>>, {}),
    ListValue(<<"a.mp3", "b.flac", "c.mp3">>),
    ListValue(Alternating(FILE_KEEP)) }

InitConc ==
  /\ root_exists = TRUE
  /\ tree \in ConcTrees
  /\ HAS_MUTAGEN = FALSE
  /\ store \in ConcStores
  /\ InitCommon

NextConc == \E p \in Procs : Main(p, FALSE)

SpecConc == InitConc /\ [][NextConc]_vars

----------------------------------------------------------------------------
(* Properties *)

AfterLoad == {"filter", "fallback", "score", "draw", "update", "write", "print", "done"}
AfterFallback == {"score", "draw", "update", "write", "print", "done"}
AfterScore == {"draw", "update", "write", "print", "done"}
AfterSelect == {"update", "write", "print", "done"}

\* The last k entries of s: all of s when it is shorter, none when k = 0
LastK(s, k) == SubSeq(s, Len(s) - Min(k, Len(s)) + 1, Len(s))

\* C1: after an invocation that selected a track, the store holds the loaded history
\* with the selected track appended, cut to its last 20 entries, so at most 20 entries.
C1_PersistedIsLoadedPlusSelected ==
  \A p \in Procs :
    (Ended(p) /\ run[p].selected # NoTrack) =>
      /\ store = ListValue(LastK(Append(run[p].loaded.items, run[p].selected), FILE_KEEP))
      /\ Len(store.items) <= FILE_KEEP

\* C2: with a non-empty catalog and a loaded history that is a list of entries, every
\* eligible track is scored with a weight >= 1, the invocation does not fail, and what
\* it prints is exactly one track, a member of the catalog and of the eligible list.
C2_WeightsAndOutput ==
  \A p \in Procs :
    /\ run[p].pc \in AfterScore =>
         /\ Len(run[p].scored_tracks) = Len(run[p].available_tracks)
         /\ \A i \in 1..Len(run[p].scored_tracks) :
              /\ run[p].scored_tracks[i][1] = run[p].available_tracks[i]
              /\ run[p].scored_tracks[i][2] >= 1
    /\ (run[p].pc = "crash") => run[p].loaded.kind # "list"
    /\ Len(run[p].stdout) <= 1
    /\ run[p].pc = "done" =>
         /\ run[p].stdout = <<run[p].selected>>
         /\ run[p].selected \in Range(run[p].all_tracks)
         /\ run[p].selected \in Range(run[p].available_tracks)
         /\ Range(run[p].all_tracks) \subseteq Range(tree)

C2_Witness ==
  /\ run[1].pc = "done"
  /\ GONE \in Range(run[1].loaded.items)
  /\ "a.mp3" \in Range(run[1].loaded.items)
  /\ Len(run[1].all_tracks) >= 2
  /\ run[1].stdout = <<run[1].selected>>

\* C3 as stated: a missing root and an empty catalog both end the invocation with a
\* non-zero status, and the two statuses differ.
C3_DistinctStatuses ==
  \A p \in Procs :
    run[p].pc = "exit" =>
      /\ run[p].status # EXIT_OK
      /\ root_exists => run[p].status # EXIT_NO_ROOT
      /\ ~root_exists => run[p].status # EXIT_NO_TRACKS

\* C3 amended: a missing root and an empty catalog both end the invocation at once
\* (before the history is loaded or a track selected) with the same non-zero status 1.
C3_FatalExit ==
  \A p \in Procs :
    /\ ~root_exists => run[p].pc \in {"root", "exit"}
    /\ (root_exists /\ Catalog(tree) = <<>>) => run[p].pc \in {"root", "scan", "exit"}
    /\ run[p].pc = "exit" =>
         /\ ~root_exists \/ Catalog(tree) = <<>>
         /\ run[p].status # EXIT_OK
         /\ run[p].status = 1
         /\ run[p].status = EXIT_NO_ROOT
         /\ run[p].status = EXIT_NO_TRACKS
         /\ run[p].selected = NoTrack
         /\ run[p].all_tracks = <<>>

C3_Witness ==
  /\ run[1].pc = "exit"
  /\ root_exists
  /\ tree # <<>>
  /\ run[1].status = 1

\* C4: the window consulted is the last min(N div 2, 10) entries of the loaded history
\* (none when that number is 0) and the eligible list is the catalog without the tracks
\* of that window.
C4_WindowIsLastEntries ==
  \A p \in Procs :
    (run[p].pc = "fallback" /\ run[p].loaded.kind = "list") =>
      LET k == Min(Len(run[p].all_tracks) \div 2, HISTORY_LIMIT)
          window == LastK(run[p].loaded.items, k)
      IN  /\ Window(run[p].history, run[p].actual_limit) = window
          /\ run[p].available_tracks =
               SelectSeq(run[p].all_tracks, LAMBDA t : t \notin Range(window))

\* C5: when the window excludes every track of the catalog the draw is made over the
\* whole catalog; the list drawn from is never empty and the track drawn is of the
\* catalog.
C5_FallbackToCatalog ==
  \A p \in Procs :
    /\ run[p].pc \in AfterFallback =>
         /\ run[p].available_tracks # <<>>
         /\ (\A t \in Range(run[p].all_tracks) :
               InWindow(t, run[p].loaded, run[p].actual_limit))
              => run[p].available_tracks = run[p].all_tracks
    /\ run[p].error # "IndexError"
    /\ run[p].pc \in AfterSelect =>
         run[p].selected \in Range(run[p].all_tracks)

C5_Witness ==
  /\ run[1].pc = "done"
  /\ run[1].loaded.kind = "list"
  /\ \A t \in Range(run[1].all_tracks) : t \in Range(run[1].loaded.items)
  /\ run[1].available_tracks = run[1].all_tracks
  /\ run[1].selected = "a.mp3"

\* C6: over successive invocations on one store and a catalog of N >= 20 tracks, no
\* invocation selects a track that is among the min(N div 2, 10) most recently selected;
\* a track is selected again only once that many other selections lie in between.
C6_NoRepeatInsideWindow ==
  LET N == Len(Catalog(tree))
      k == Min(N \div 2, HISTORY_LIMIT)
  IN  N >= 20 =>
        /\ \A i, j \in 1..Len(played) :
             (i < j /\ j - i <= k) => played[i] # played[j]
        /\ \A p \in Procs :
             run[p].pc \in {"update", "write", "print"} =>
               run[p].selected \notin Range(LastK(played, k))

C6_Witness ==
  /\ Len(Catalog(tree)) >= 20
  /\ Len(played) > HISTORY_LIMIT + 1
  /\ played[HISTORY_LIMIT + 2] = played[1]

\* C7 as stated: whatever the store holds when it is loaded, a content that is not a
\* list of track identifiers is loaded as the empty history and no invocation fails.
C7_AnyStoreLoadsAsEmpty ==
  \A p \in Procs :
    /\ (run[p].pc \in {"filter", "fallback", "score", "draw", "update"}
          /\ store.kind # "list") => run[p].history = EmptyList
    /\ run[p].pc # "crash"

\* C8: an invocation that finds no root or no track exits with a non-zero status and
\* nothing on standard output; one that succeeds has printed the selected track as the
\* only line and exits with status 0.
C8_OutputAndStatus ==
  \A p \in Procs :
    /\ (~root_exists \/ Catalog(tree) = <<>>) =>
         /\ run[p].stdout = <<>>
         /\ run[p].pc \in {"root", "scan", "exit"}
         /\ run[p].status \in {NotExited, 1}
    /\ run[p].pc = "exit" => (run[p].status # 0 /\ run[p].stdout = <<>>)
    /\ run[p].pc = "done" => (run[p].status = 0 /\ run[p].stdout = <<run[p].selected>>)
    /\ run[p].status = 0 => run[p].pc = "done"
    /\ run[p].stdout # <<>> => run[p].pc = "done"

C8_Witness ==
  /\ run[1].pc = "exit"
  /\ ~root_exists
  /\ run[1].stdout = <<>>
  /\ run[1].status # 0

\* C9: the catalog is exactly the regular files under the root whose extension, in
\* lower case, is one of mp3, ogg, wav, flac, m4a.
C9_CatalogIsRegularFiles ==
  \A p \in Procs :
    run[p].pc \in AfterLoad \cup {"load"} =>
      Range(run[p].all_tracks) =
        {t \in Range(tree) :
           /\ Meta(t).kind = "file"
           /\ Lower(Meta(t).suffix) \in {".mp3", ".ogg", ".wav", ".flac", ".m4a"}}

\* C10: get_bitrate never raises; it returns 1411000 for a readable .flac, the
\* non-negative bitrate of the metadata for a readable .mp3 or .ogg, and 0 for any other
\* extension, for an entry that cannot be read, and for every entry without mutagen.
C10_BitrateContract ==
  \A p \in Procs :
    /\ run[p].error # "Exception"
    /\ run[p].pc \in AfterScore =>
         /\ Len(run[p].bitrates) = Len(run[p].available_tracks)
         /\ \A i \in 1..Len(run[p].bitrates) :
              LET m == Meta(run[p].available_tracks[i])
                  ext == Lower(m.suffix)
                  b == run[p].bitrates[i]
              IN  /\ ~b.raised
                  /\ b.value >= 0
                  /\ ~HAS_MUTAGEN => b.value = 0
                  /\ ~m.parses => b.value = 0
                  /\ ext \notin {".mp3", ".ogg", ".flac"} => b.value = 0
                  /\ (HAS_MUTAGEN /\ m.parses /\ ext = ".flac") => b.value = 1411000
                  /\ (HAS_MUTAGEN /\ m.parses /\ ext \in {".mp3", ".ogg"})
                       => b.value = m.bitrate

C10_Witness ==
  /\ HAS_MUTAGEN
  /\ run[1].pc \in AfterScore
  /\ \E i, j, k \in 1..Len(run[1].bitrates) :
       /\ run[1].available_tracks[i] = "b.flac" /\ run[1].bitrates[i].value = 1411000
       /\ run[1].available_tracks[j] = "bad.flac" /\ run[1].bitrates[j].value = 0
       /\ run[1].available_tracks[k] = "d.OGG" /\ run[1].bitrates[k].value = 320000

\* Sum of the weights of the first i scored tracks
RECURSIVE Cumulative(_, _)
Cumulative(scored, i) == IF i = 0 THEN 0 ELSE Cumulative(scored, i - 1) + scored[i][2]

\* The draws (in halves) of [0, total) for which the walk over scored selects track t
DrawsSelecting(scored, total, t) ==
  {r \in 0..(2 * total - 1) : Walk(scored, 0, r, scored[1][1]) = t}

C12_FirstCumulativeAtLeastDraw ==
  \A p \in Procs :
    run[p].pc \in AfterSelect =>
      /\ 0 <= run[p].r /\ run[p].r <= 2 * run[p].total_weight
      /\ \E i \in 1..Len(run[p].scored_tracks) :
           /\ 2 * Cumulative(run[p].scored_tracks, i) >= run[p].r
           /\ \A j \in 1..(i - 1) : 2 * Cumulative(run[p].scored_tracks, j) < run[p].r
           /\ run[p].selected = run[p].scored_tracks[i][1]
      /\ Walk(run[p].scored_tracks, 0, run[p].r, NoTrack) = run[p].selected

C12_Witness ==
  /\ run[1].pc \in AfterSelect
  /\ Len(run[1].scored_tracks) >= 3
  /\ run[1].r = 2 * run[1].total_weight
  /\ run[1].selected = run[1].scored_tracks[Len(run[1].scored_tracks)][1]
  /\ run[1].selected # run[1].available_tracks[1]

\* C13: every eligible track has a draw of [0, total) for which it is the track
\* selected, whatever the bitrates, also when every bitrate is 0.
C13_EveryEligibleTrackSelectable ==
  \A p \in Procs :
    run[p].pc \in AfterScore =>
      /\ run[p].total_weight >= Len(run[p].scored_tracks)
      /\ \A i \in 1..Len(run[p].scored_tracks) :
           DrawsSelecting(run[p].scored_tracks, run[p].total_weight,
                          run[p].scored_tracks[i][1]) # {}

C13_Witness ==
  /\ ~HAS_MUTAGEN
  /\ run[1].pc = "done"
  /\ Len(run[1].available_tracks) >= 3
  /\ \A i \in 1..Len(run[1].bitrates) : run[1].bitrates[i].value = 0
  /\ run[1].r < 2 * run[1].total_weight
  /\ run[1].selected = run[1].available_tracks[Len(run[1].available_tracks)]

\* The steps of one invocation, in the order of main()
StepOrder == <<"scan", "load", "select", "open", "write", "print">>

IsPrefix(s, t) == Len(s) <= Len(t) /\ SubSeq(t, 1, Len(s)) = s

\* C14: the steps of one invocation occur in the order scan, load, select, persist,
\* print, each at most once: the store is read once at most and before it is written,
\* it is written only after a track is selected, and the track is printed only after
\* the store is written, so an invocation that fails before or while persisting has
\* printed nothing.
C14_StepOrder ==
  \A p \in Procs :
    /\ IsPrefix(run[p].log, StepOrder)
    /\ run[p].pc = "done" => run[p].log = StepOrder
    /\ "open" \in Range(run[p].log) =>
         (run[p].selected # NoTrack /\ "load" \in Range(run[p].log))
    /\ (run[p].pc # "root" /\ store # run[p].found) => "open" \in Range(run[p].log)
    /\ run[p].stdout # <<>> =>
         /\ "write" \in Range(run[p].log)
         /\ store = ListValue(LastK(Append(run[p].loaded.items, run[p].selected), FILE_KEEP))
    /\ run[p].pc = "crash" => run[p].stdout = <<>>

C14_Witness ==
  /\ run[1].pc = "done"
  /\ run[1].log = StepOrder
  /\ run[1].found.kind = "list"
  /\ store # run[1].found
  /\ run[1].stdout = <<run[1].selected>>

\* The invocation that wrote the store last
LastWriter == CHOOSE q \in Procs : run[q].write_no = Writers

\* C15: when two concurrent invocations have ended, the store holds what the one that
\* wrote last has written: the history that invocation loaded with its own selection
\* appended, cut to the last 20 entries.
C15_LastWriterWins ==
  ((\A p \in Procs : Ended(p)) /\ Writers > 0) =>
    /\ store = ListValue(LastK(Append(run[LastWriter].loaded.items,
                                      run[LastWriter].selected), FILE_KEEP))
    /\ Len(store.items) <= FILE_KEEP

\* C16: with a catalog of N >= 2 tracks and any loaded list, the eligible list the
\* window leaves is not empty, so the fallback to the whole catalog is not taken; it is
\* taken only with a catalog of one track.
C16_FallbackOnlyForOneTrack ==
  \A p \in Procs :
    /\ (/\ run[p].pc = "fallback"
        /\ Len(run[p].all_tracks) >= 2
        /\ run[p].loaded.kind = "list") => run[p].available_tracks # <<>>
    /\ (/\ run[p].pc = "fallback"
        /\ run[p].loaded.kind = "list"
        /\ run[p].available_tracks = <<>>) => Len(run[p].all_tracks) = 1

C16_Witness ==
  /\ run[1].pc = "fallback"
  /\ Len(run[1].all_tracks) = 4
  /\ run[1].loaded.items = <<"a.mp3", "b.flac", "c.mp3">>
  /\ run[1].available_tracks = <<"a.mp3", "d.OGG">>

\* C17: over a fixed catalog of N >= 2 tracks and successive successful runs on the
\* same store, starting from any stored list, no two consecutive runs select the same
\* track, and any min(N // 2, 10) + 1 consecutive selections are pairwise distinct.
C17_ConsecutiveSelectionsDistinct ==
  LET N == Len(Catalog(tree))
      k == Min(N \div 2, HISTORY_LIMIT)
  IN  N >= 2 =>
        /\ Len(played) <= runs + 1
        /\ \A i \in 1..(Len(played) - 1) : played[i] # played[i + 1]
        /\ \A i \in 1..Len(played) :
             Cardinality({played[j] : j \in i..Min(i + k, Len(played))})
               = Min(i + k, Len(played)) - i + 1
        /\ \A p \in Procs :
             (Ended(p) /\ runs = Len(played) - 1) =>
               /\ store.kind = "list"
               /\ LastK(store.items, Min(Len(played), FILE_KEEP))
                    = LastK(played, FILE_KEEP)

C17_Witness ==
  /\ Len(Catalog(tree)) = 4
  /\ Len(played) >= 4
  /\ played[4] = played[1]
  /\ played[3] # played[1]

\* C18: an invocation that ends fatally (root directory absent, or no track found)
\* leaves the persisted history as it found it: it has not read, created, truncated
\* or rewritten the store, and has printed nothing.
C18_FatalExitLeavesStore ==
  \A p \in Procs :
    run[p].pc = "exit" =>
      /\ store = run[p].found
      /\ run[p].log \in {<<>>, <<"scan">>}
      /\ run[p].loaded = InitRun.loaded
      /\ run[p].write_no = 0
      /\ run[p].status \in {EXIT_NO_ROOT, EXIT_NO_TRACKS}

C18_Witness ==
  /\ run[1].pc = "exit"
  /\ root_exists
  /\ tree = <<"notes.txt">>
  /\ run[1].log = <<"scan">>
  /\ store = StoreValue("missing", <<>>, {})

====
